---- MODULE Spec2Model ----
(***************************************************************************)
(* courtlight/highcourts: the listing crawl (scraper.py), the content      *)
(* population pass (populate_contents.py), the ORM schema (orm.py) and the *)
(* retry wrapper used in utils.py and scraper.py.                          *)
(*                                                                         *)
(* Five specifications share this module:                                  *)
(*   Spec       the store: runs of scrape_cases and populate_contents      *)
(*   SpecScrape the store under runs of scrape_cases alone                 *)
(*   SpecRows   cases_from_page on one results page                        *)
(*   SpecFetch  fetch_cases over one entity's pages                        *)
(*   SpecRetry  backoff.on_exception(expo, Exception, max_time=120,        *)
(*              jitter=full_jitter) around a failing operation             *)
(***************************************************************************)
EXTENDS Integers, Sequences, FiniteSets, TLC

VARIABLES
    db,      \* the committed store (what is in the sqlite file)
    sess,    \* the SQLAlchemy session's view: db plus flushed, uncommitted rows
    pc,      \* which program is running: "idle", "scrape", "populate"
    run,     \* locals of scrape_cases / fetch_cases
    pass,    \* locals of populate_contents
    disk,    \* the judgements/ directory: url -> "none" | "partial" | "full"
    hist,    \* history: what the last finished run did (read by the claims only)
    rw,      \* SpecRows: one page and the result of cases_from_page
    cur,     \* SpecFetch: fetch_cases' position, requests and yielded records
    bo       \* SpecRetry: the retry loop's state

vars == <<db, sess, pc, run, pass, disk, hist, rw, cur, bo>>

-----------------------------------------------------------------------------
(* Bounds of the model *)

MaxRuns == 4        \* programs started, one after the other, in Spec
MaxRowsPage == 3    \* rows of the page in SpecRows
MaxPages == 3       \* result pages of the entity in SpecFetch
MaxTries == 9       \* attempts of the retry loop followed in SpecRetry
MaxAttemptSecs == 2 \* the longest one attempt takes to raise, in seconds

-----------------------------------------------------------------------------
(* Values *)

JudgeNames == {"A", "B"}
URLs == {"u1", "u2", "u3"}
CaseNos == {"c1", "c2", "c3"}
Parties == {"p", "q"}
Dates == {1, 2}

NULL == "NULL"      \* a NULL text column
NullRef == 0        \* a NULL judgement_id (rowids start at 1)
NoRow == [id |-> 0] \* the None a query's first() returns

\* The document behind each reference URL, as pdftotext renders it:
\* u1 and u2 are byte-distinct PDFs with the same text.
DocText(u) == IF u = "u3" THEN "t2" ELSE "t1"

\* hashlib.sha256(text.encode('utf-8')).hexdigest(): a digest, not the text
sha256(t) == "sha256:" \o t

Max(S) == IF S = {} THEN 0 ELSE CHOOSE x \in S : \A y \in S : y <= x

Range(s) == {s[i] : i \in 1..Len(s)}

-----------------------------------------------------------------------------
(* scraper.py: cases_from_page *)

\* A table row as cases_from_page reads it: the number of cells, the first
\* child element of the second cell ("none": the cell holds text only,
\* "nohref": an element without href, "href": a hyperlink), the link's href
\* and text, the text of the third cell and of the fourth.
LinkText(pad, c) == [pad |-> pad, s |-> c]

strip(t) == t.s

Row(cells, kid, u, c, d, p) ==
    [cells |-> cells, kid |-> kid, href |-> u, text |-> LinkText(TRUE, c),
     date |-> d, party |-> p]

\* datetime.strptime(text, '%d/%m/%Y'): a date, or ValueError (the cell
\* text 0 stands for text that is no dd/mm/yyyy date)
strptime_ok(d) == d \in Dates

\* One iteration of the loop body: what the row does to the generator.
RowStep(judge_name, tr) ==
    IF tr.cells < 2 THEN [kind |-> "raise", err |-> "IndexError"]        \* tr[1]
    ELSE IF tr.kid = "none" THEN [kind |-> "raise", err |-> "IndexError"] \* tr[1][0]
    ELSE IF tr.kid # "href" THEN [kind |-> "skip"]
    ELSE IF tr.cells < 3 THEN [kind |-> "raise", err |-> "IndexError"]    \* tr[2]
    ELSE IF ~strptime_ok(tr.date) THEN [kind |-> "raise", err |-> "ValueError"]
    ELSE IF tr.cells < 4 THEN [kind |-> "raise", err |-> "IndexError"]    \* tr[3]
    ELSE [kind |-> "yield",
          case |-> [pdf_link |-> tr.href, case_number |-> strip(tr.text),
                    date |-> tr.date, party |-> tr.party,
                    judge_name |-> judge_name]]

\* The generator run to its end: the cases it yields, in row order, and the
\* exception that ends it ("none": it is exhausted normally).
RECURSIVE cases_from_page(_, _)
cases_from_page(judge_name, rows) ==
    IF rows = <<>> THEN [out |-> <<>>, err |-> "none"]
    ELSE LET s == RowStep(judge_name, Head(rows))
         IN  IF s.kind = "raise" THEN [out |-> <<>>, err |-> s.err]
             ELSE LET rest == cases_from_page(judge_name, Tail(rows))
                  IN  IF s.kind = "skip" THEN rest
                      ELSE [out |-> <<s.case>> \o rest.out, err |-> rest.err]

-----------------------------------------------------------------------------
(* SpecRows: cases_from_page applied to one page *)

HeaderText == Row(4, "none", "u1", "c1", 0, "p")   \* <td>Case No</td>...
HeaderBold == Row(4, "nohref", "u1", "c1", 0, "p") \* <td><b>Case No</b></td>...
Spacer     == Row(1, "none", "u1", "c1", 0, "p")   \* <td colspan=4>
DataRow1   == Row(4, "href", "u1", "c1", 1, "p")
DataRow2   == Row(4, "href", "u2", "c2", 2, "q")
BadDate    == Row(4, "href", "u3", "c3", 0, "p")
ShortRow   == Row(3, "href", "u3", "c3", 1, "p")       \* a link, no party cell

RowShapes ==
    {HeaderText, HeaderBold, Spacer, DataRow1, DataRow2, BadDate, ShortRow}

RowSeqs(S, n) == UNION {[1..k -> S] : k \in 0..n}

RwIdle == [rows |-> <<>>, done |-> FALSE, out |-> <<>>, err |-> "none"]

InitRows ==
    /\ rw \in {[rows |-> r, done |-> FALSE, out |-> <<>>, err |-> "none"] :
                 r \in RowSeqs(RowShapes, MaxRowsPage)}

\* for tr in ...: the generator consumed to its end
ParsePage ==
    /\ ~rw.done
    /\ LET r == cases_from_page("A", rw.rows)
       IN  rw' = [rw EXCEPT !.done = TRUE, !.out = r.out, !.err = r.err]
    /\ UNCHANGED <<db, sess, pc, run, pass, disk, hist, cur, bo>>

-----------------------------------------------------------------------------
(* orm.py: the schema.  A store holds the rows of the three tables; the     *)
(* judgement_authorship rows of a Judgement are its list `judges`.          *)

EmptyStore == [judge |-> {}, judgement |-> {}, case |-> {}]

\* Integer primary keys of sqlite: one more than the largest rowid in use
NewId(rows) == Max({r.id : r \in rows}) + 1

\* query(...).first(): the first matching row (lowest rowid), or None
First(rows) ==
    IF rows = {} THEN NoRow
    ELSE CHOOSE r \in rows : \A o \in rows : r.id <= o.id

JudgeByName(s, name) == First({j \in s.judge : j.name = name})

\* (mutant) the lookup by pdf_link sees committed rows only and finds none
JudgementByLink_miss(s, pdf_link) == NoRow

JudgementByLink(s, pdf_link) ==
    First({j \in s.judgement : j.pdf_link = pdf_link})


\* (mutant) the existence check on case_number is left out
CaseNumberExists_never(s, case_number) == FALSE

CaseNumberExists(s, case_number) ==
    \E c \in s.case : c.case_number = case_number


\* (mutant) the lookup by hash finds nothing
JudgementByHash_miss(s, h) == NoRow

JudgementByHash(s, h) ==
    First({j \in s.judgement : j.text_content_hash = h})

JudgementById(s, id) == CHOOSE j \in s.judgement : j.id = id

-----------------------------------------------------------------------------
(* The portal, as one run of scrape_cases sees it: the directory of judges  *)
(* (name, portal id) and, per portal id, the result pages of the query.     *)
(* `next` is the page the "NEXT >>" link of a page leads to, 0 without one. *)

Page(rows, next) == [rows |-> rows, next |-> next]

R(u, c, d, p) == Row(4, "href", u, c, d, p)

Portals == {1, 2, 3, 4}

Directory(f) ==
    CASE f = 1 -> << <<"A", "j1">>, <<"B", "j2">> >>
      [] f = 2 -> << <<"B", "j2">> >>
      [] f = 3 -> << <<"A", "j1">>, <<"B", "j2">> >>
      [] f = 4 -> << <<"A", "j1">> >>

Listing(f, judge_id) ==
    CASE f = 1 /\ judge_id = "j1" ->
           << Page(<<HeaderBold, R("u1", "c1", 1, "p")>>, 2),
              Page(<<R("u2", "c2", 2, "p"), R("u2", "c3", 2, "p")>>, 0) >>
      [] f = 1 /\ judge_id = "j2" ->
           << Page(<<R("u1", "c1", 1, "p"), R("u3", "c1", 2, "q")>>, 0) >>
      [] f = 2 ->
           << Page(<<R("u2", "c2", 2, "q")>>, 0) >>
      [] f = 3 /\ judge_id = "j1" ->
           << Page(<<R("u3", "c3", 1, "p"), HeaderText,
                     R("u1", "c1", 1, "p")>>, 0) >>
      [] f = 3 /\ judge_id = "j2" ->
           << Page(<<R("u3", "c3", 1, "p")>>, 0) >>
      [] f = 4 ->
           << Page(<<R("u1", "c1", 1, "p")>>, 0) >>

-----------------------------------------------------------------------------
(* scraper.py: fetch_cases, as a cursor over one entity's result pages.     *)
(* A cursor is the page last fetched, the cases of that page not yet        *)
(* yielded, and the exception cases_from_page ends with after them.         *)

CursorOn(listing, judge_name, k) ==
    LET r == cases_from_page(judge_name, listing[k].rows)
    IN  [doc |-> k, q |-> r.out, err |-> r.err]

\* session.post(judgements_url, data=post_data): the first results page
CursorPost(listing, judge_name) == CursorOn(listing, judge_name, 1)

\* (mutant) the NEXT link is never found
NextUrl_none(listing, c) == 0

\* doc.xpath('//a[text() = "NEXT >>"]'): the link's target, 0 without a link
NextUrl(listing, c) == listing[c.doc].next

\* session.get(next_url): the page the link leads to
CursorGet(listing, judge_name, c) ==
    CursorOn(listing, judge_name, NextUrl(listing, c))

NoCursor == [doc |-> 0, q |-> <<>>, err |-> "none"]

-----------------------------------------------------------------------------
(* scraper.py: scrape_cases *)

\* lines 103-106: the Judge of this name, created when absent
WithJudge(s, name) ==
    IF JudgeByName(s, name) # NoRow THEN s
    ELSE [s EXCEPT !.judge = @ \cup {[id |-> NewId(s.judge), name |-> name]}]

\* (mutant) the judge is appended without the `not in` test
WithJudgement_dupes(s, judge, case_data) ==
    LET judgement == JudgementByLink(s, case_data.pdf_link)
    IN  IF judgement = NoRow
        THEN [s EXCEPT !.judgement = @ \cup
                 {[id |-> NewId(s.judgement), pdf_link |-> case_data.pdf_link,
                   date |-> case_data.date, text_content |-> NULL,
                   text_content_hash |-> NULL, judges |-> <<judge>>]}]
        ELSE [s EXCEPT !.judgement = (@ \ {judgement}) \cup
                 {[judgement EXCEPT !.judges = Append(@, judge)]}]

\* lines 115-122: the Judgement of this pdf_link, created when absent; the
\* judge appended to its authors when not among them
WithJudgement(s, judge, case_data) ==
    LET judgement == JudgementByLink(s, case_data.pdf_link)
    IN  IF judgement = NoRow
        THEN [s EXCEPT !.judgement = @ \cup
                 {[id |-> NewId(s.judgement), pdf_link |-> case_data.pdf_link,
                   date |-> case_data.date, text_content |-> NULL,
                   text_content_hash |-> NULL, judges |-> <<judge>>]}]
        ELSE IF judge \in Range(judgement.judges) THEN s
        ELSE [s EXCEPT !.judgement = (@ \ {judgement}) \cup
                 {[judgement EXCEPT !.judges = Append(@, judge)]}]

\* (mutant) an existing Case takes the party and the Judgement of the record
WithCase_updates(s, case_data) ==
    [s EXCEPT !.case =
       {c \in @ : c.case_number # case_data.case_number} \cup
       {[id |-> IF CaseNumberExists(s, case_data.case_number)
                THEN (CHOOSE c \in s.case :
                        c.case_number = case_data.case_number).id
                ELSE NewId(s.case),
         case_number |-> case_data.case_number,
         party |-> case_data.party,
         judgement_id |-> JudgementByLink(s, case_data.pdf_link).id]}]

\* lines 126-131: the Case of this case_number, created when absent
WithCase(s, case_data) ==
    IF CaseNumberExists(s, case_data.case_number) THEN s
    ELSE [s EXCEPT !.case = @ \cup
             {[id |-> NewId(s.case), case_number |-> case_data.case_number,
               party |-> case_data.party,
               judgement_id |-> JudgementByLink(s, case_data.pdf_link).id]}]

\* lines 109-131: the loop body for one yielded case
Reconciled(s, judge, case_data) ==
    WithCase(WithJudgement(s, judge, case_data), case_data)

\* The aiohttp side of a run: how many ClientSessions were made, which are
\* open, the one of fetch_judges (dir) and of the fetch_cases under way (s),
\* and the requests issued, in order.
HttpIdle == [made |-> 0, open |-> {}, dir |-> 0, s |-> 0, reqs |-> <<>>]

\* (mutant) fetch_cases uses the session of fetch_judges
ClientSession_shared(h) == h.dir

\* aiohttp.ClientSession(): a session (cookie jar) no request was made on
ClientSession(h) == h.made + 1

\* async with ... as session: the session is open from here on
Entered(h, id) == [h EXCEPT !.made = @ + 1, !.open = @ \cup {id}]

\* leaving the async with block, normally or with an exception
Closed(h, id) == [h EXCEPT !.open = @ \ {id}]

\* One request: the session, the entity it is made for ("dir": the list of
\* judges), verb and URL, the page a NEXT link leads to, and the form data
\* of the POST (ctype; frdate and todate, for which the portal number stands)
Request(id, ent, verb, url, page, ctype, range) ==
    [s |-> id, ent |-> ent, verb |-> verb, url |-> url, page |-> page,
     ctype |-> ctype, range |-> range]

Issued(h, r) == [h EXCEPT !.reqs = Append(@, r)]

RunIdle ==
    [portal |-> 0, j |-> 0, judge |-> 0, st |-> "none", c |-> NoCursor,
     listed |-> {}, http |-> HttpIdle]

PassIdle == [todo |-> <<>>, i |-> 0]

HistInit ==
    [n |-> 0, op |-> "none", ok |-> TRUE, before |-> EmptyStore, portal |-> 0,
     prevPortal |-> 0, prevDb |-> EmptyStore, repeat |-> FALSE,
     uncommitted |-> FALSE, listed |-> {}, todo |-> <<>>, failedAt |-> 0,
     deleted |-> {}, cause |-> "none", http |-> HttpIdle, dedups |-> {},
     restart |-> [on |-> FALSE, base |-> EmptyStore,
                  disk |-> [u \in URLs |-> "none"]],
     cycle |-> [portal |-> 0, urls |-> {}, again |-> FALSE, gone |-> {}]]

OtherIdle == rw = RwIdle /\ cur = 0 /\ bo = 0

StoreIdle ==
    /\ db = EmptyStore
    /\ sess = EmptyStore
    /\ pc = "idle"
    /\ run = RunIdle
    /\ pass = PassIdle
    /\ disk = [u \in URLs |-> "none"]
    /\ hist = HistInit

StoreOnly == UNCHANGED <<rw, cur, bo>>

Init == StoreIdle /\ OtherIdle

CurDir == Directory(run.portal)
CurListing == Listing(run.portal, CurDir[run.j][2])
CurName == CurDir[run.j][1]
CurId == CurDir[run.j][2]

\* main(): `scrape-cases db_path from_date to_date`.  f is what the portal
\* serves for this date range.
ScrapeStart ==
    /\ pc = "idle"
    /\ hist.n < MaxRuns
    /\ \E f \in Portals :
         run' = [RunIdle EXCEPT !.portal = f, !.st = "start"]
    /\ pc' = "scrape"
    /\ hist' = [hist EXCEPT !.n = @ + 1, !.op = "scrape", !.ok = FALSE,
                            !.before = db, !.portal = run'.portal,
                            !.repeat = FALSE, !.uncommitted = FALSE,
                            !.failedAt = 0, !.cause = "none",
                            !.http = HttpIdle,
                            !.cycle.again = (hist.cycle.portal = run'.portal
                                             /\ hist.cycle.urls # {})]
    /\ UNCHANGED <<db, sess, pass, disk>>
    /\ StoreOnly

\* lines 18-25, first pull of line 100: fetch_judges makes its session,
\* GETs the index page for the cookie, GETs and parses the list of judges
FetchJudges ==
    /\ pc = "scrape"
    /\ run.st = "start"
    /\ LET id == ClientSession(run.http)
           h1 == Entered(run.http, id)
           h2 == Issued(h1, Request(id, "dir", "GET", "dhcindex", 0, "", 0))
           h3 == Issued(h2, Request(id, "dir", "GET", "judname", 0, "", 0))
       IN  run' = [run EXCEPT !.st = "judges", !.http = [h3 EXCEPT !.dir = id]]
    /\ UNCHANGED <<db, sess, pc, pass, disk, hist>>
    /\ StoreOnly

\* line 100, 103-106: the next (name, judge_id) of the directory and its Judge
NextJudge ==
    /\ pc = "scrape"
    /\ run.st = "judges"
    /\ run.j < Len(CurDir)
    /\ LET name == CurDir[run.j + 1][1]
           s == WithJudge(sess, name)
       IN  /\ sess' = s
           /\ run' = [run EXCEPT !.j = @ + 1, !.judge = JudgeByName(s, name).id,
                                 !.st = "fetch", !.c = NoCursor]
    /\ UNCHANGED <<db, pc, pass, disk, hist>>
    /\ StoreOnly

\* lines 66-79: fetch_cases makes its session, GETs the index page and
\* POSTs the query
Posted(h, judge_id, range) ==
    LET id == ClientSession(h)
        h1 == Entered(h, id)
        h2 == Issued(h1, Request(id, judge_id, "GET", "dhcindex", 0, "", 0))
        h3 == Issued(h2, Request(id, judge_id, "POST", "judname1", 1,
                                 judge_id, range))
    IN  [h3 EXCEPT !.s = id]

\* line 93: session.get(next_url)
Got(h, judge_id, next_url) ==
    Issued(h, Request(h.s, judge_id, "GET", "next", next_url, "", 0))

\* line 108, first pull: fetch_cases' landing GET and query POST
FetchFirst ==
    /\ pc = "scrape"
    /\ run.st = "fetch"
    /\ run' = [run EXCEPT !.st = "page", !.c = CursorPost(CurListing, CurName),
                          !.http = Posted(@, CurId, run.portal)]
    /\ UNCHANGED <<db, sess, pc, pass, disk, hist>>
    /\ StoreOnly

\* lines 109-131: one yielded case reconciled into the session
Reconcile ==
    /\ pc = "scrape"
    /\ run.st = "page"
    /\ run.c.q # <<>>
    /\ sess' = Reconciled(sess, run.judge, Head(run.c.q))
    /\ run' = [run EXCEPT !.c.q = Tail(@),
                          !.listed = @ \cup {<<Head(run.c.q).pdf_link,
                                                Head(run.c.q).judge_name>>}]
    /\ UNCHANGED <<db, pc, pass, disk, hist>>
    /\ StoreOnly

\* (mutant) the NEXT link is followed before the page's cases are yielded
FetchNext_early ==
    /\ pc = "scrape"
    /\ run.st = "page"
    /\ run.c.err = "none"
    /\ NextUrl(CurListing, run.c) # 0
    /\ run' = [run EXCEPT !.c = CursorGet(CurListing, CurName, run.c),
                          !.http = Got(@, CurId, NextUrl(CurListing, run.c))]
    /\ UNCHANGED <<db, sess, pc, pass, disk, hist>>
    /\ StoreOnly

\* lines 88-97: the page is used up and has a NEXT link: GET it
FetchNext ==
    /\ pc = "scrape"
    /\ run.st = "page"
    /\ run.c.q = <<>>
    /\ run.c.err = "none"
    /\ NextUrl(CurListing, run.c) # 0
    /\ run' = [run EXCEPT !.c = CursorGet(CurListing, CurName, run.c),
                          !.http = Got(@, CurId, NextUrl(CurListing, run.c))]
    /\ UNCHANGED <<db, sess, pc, pass, disk, hist>>
    /\ StoreOnly

\* (mutant) the commit is inside the loop over the judges
EndOfListing_commits ==
    /\ pc = "scrape"
    /\ run.st = "page"
    /\ run.c.q = <<>>
    /\ run.c.err = "none"
    /\ NextUrl(CurListing, run.c) = 0
    /\ run' = [run EXCEPT !.st = "judges", !.http = Closed(@, @.s)]
    /\ db' = sess
    /\ UNCHANGED <<sess, pc, pass, disk, hist>>
    /\ StoreOnly

\* lines 90-91: no NEXT link: fetch_cases is exhausted and leaves its async
\* with block; back to line 100
EndOfListing ==
    /\ pc = "scrape"
    /\ run.st = "page"
    /\ run.c.q = <<>>
    /\ run.c.err = "none"
    /\ NextUrl(CurListing, run.c) = 0
    /\ run' = [run EXCEPT !.st = "judges", !.http = Closed(@, @.s)]
    /\ UNCHANGED <<db, sess, pc, pass, disk, hist>>
    /\ StoreOnly

\* The run ends without reaching line 134: the process exits with the
\* exception (or is killed) and the session's transaction is never committed.
\* `cause` is what ended it, `h` the sessions and requests as it left them.
Aborted(cause, h) ==
    /\ pc' = "idle"
    /\ sess' = db
    /\ run' = RunIdle
    /\ hist' = [hist EXCEPT !.failedAt = run.j, !.uncommitted = (sess # db),
                            !.cause = cause, !.http = h]
    /\ UNCHANGED <<db, pass, disk>>
    /\ StoreOnly

\* cases_from_page raises inside fetch_cases: the exception leaves the async
\* with blocks of fetch_cases; nothing in scrape_cases or main() catches it
ScrapeRaise ==
    /\ pc = "scrape"
    /\ run.st = "page"
    /\ run.c.q = <<>>
    /\ run.c.err # "none"
    /\ Aborted("parse", Closed(run.http, run.http.s))

\* A request raises once (the portal would answer the same request a moment
\* later).  fetch_judges (line 12) has no retry decorator; the decorator of
\* fetch_cases (line 61) wraps the call that makes the generator, not the
\* iteration in which the requests are made (see CallGenerator): the
\* exception leaves the generator through its async with block and ends
\* scrape_cases.
RequestRaises ==
    /\ pc = "scrape"
    /\ \/ /\ run.st = "start"                       \* lines 21, 24
          /\ LET id == ClientSession(run.http)
                 h1 == Entered(run.http, id)
                 h2 == Issued(h1, Request(id, "dir", "GET", "dhcindex", 0, "", 0))
             IN  Aborted("request", Closed(h2, id))
       \/ /\ run.st = "fetch"                       \* line 69
          /\ LET id == ClientSession(run.http)
                 h1 == Entered(run.http, id)
                 h2 == Issued(h1, Request(id, CurId, "GET", "dhcindex", 0, "", 0))
             IN  Aborted("request", Closed(h2, id))
       \/ /\ run.st = "fetch"                       \* line 79
          /\ LET h == Posted(run.http, CurId, run.portal)
             IN  Aborted("request", Closed(h, h.s))
       \/ /\ run.st = "page"                        \* line 93
          /\ run.c.q = <<>>
          /\ run.c.err = "none"
          /\ NextUrl(CurListing, run.c) # 0
          /\ Aborted("request",
                     Closed(Got(run.http, CurId, NextUrl(CurListing, run.c)),
                            run.http.s))

\* the process is killed, or the database raises, at any point of the run
ScrapeFail ==
    /\ pc = "scrape"
    /\ Aborted("killed", run.http)

\* line 100: fetch_judges is exhausted and leaves its async with block;
\* line 134
ScrapeCommit ==
    /\ pc = "scrape"
    /\ run.st = "judges"
    /\ run.j = Len(CurDir)
    /\ db' = sess
    /\ pc' = "idle"
    /\ run' = RunIdle
    /\ hist' = [hist EXCEPT !.ok = TRUE, !.prevPortal = run.portal,
                            !.http = Closed(run.http, run.http.dir),
                            !.cycle = [portal |-> run.portal, urls |-> {},
                                       again |-> @.again,
                                       gone |-> IF @.again THEN @.urls ELSE {}],
                            !.repeat = (hist.prevPortal = run.portal),
                            !.prevDb = IF hist.prevPortal = run.portal
                                       THEN @ ELSE sess,
                            !.listed = @ \cup run.listed]
    /\ UNCHANGED <<sess, pass, disk>>
    /\ StoreOnly

-----------------------------------------------------------------------------
(* populate_contents.py: populate_contents; utils.py: the file it reads *)

\* quote(judgement.pdf_link, safe='.') under judgements/: one path per URL;
\* os.path.exists(download_path)
Exists(d, pdf_link) == d[pdf_link] # "none"

\* utils.pdf_to_text on the file of a URL: the text of the whole document,
\* or what pdftotext makes of a truncated one when it exits 0
TruncatedText == ""

pdf_to_text(d, pdf_link) ==
    IF d[pdf_link] = "full" THEN DocText(pdf_link) ELSE TruncatedText

Perms(S) ==
    {f \in [1..Cardinality(S) -> S] : \A a, b \in DOMAIN f : f[a] = f[b] => a = b}

\* line 14: the Judgements without content, ordered by date (rows of one
\* date in any order)
Todo(s) ==
    LET rows == {j \in s.judgement : j.text_content = NULL}
    IN  {[k \in DOMAIN f |-> f[k].id] : f \in
           {g \in Perms(rows) :
              \A a, b \in DOMAIN g : a < b => g[a].date <= g[b].date}}

\* lines 35-37: `for case in judgement.cases: case.judgement = other`.  The
\* assignment takes the case out of judgement.cases, the list being iterated,
\* so the list iterator steps over the case that follows: of the list
\* l[1], l[2], ... the loop body runs for l[1], l[3], l[5], ...
Visited(l) == {l[k] : k \in {i \in 1..Len(l) : i % 2 = 1}}

\* (mutant) the Judgement found by hash is deleted, not the one processed
Deduplicated_other(s, judgement, other_judgement, cases) ==
    [s EXCEPT !.judgement = @ \ {other_judgement}]

\* lines 32-38: the cases the loop visits go to other_judgement; the
\* judgement row and its judgement_authorship rows are deleted, and the flush
\* sets judgement_id of the cases still in judgement.cases to NULL
Deduplicated(s, judgement, other_judgement, cases) ==
    [s EXCEPT
       !.judgement = @ \ {judgement},
       !.case = {IF c \in Visited(cases)
                    THEN [c EXCEPT !.judgement_id = other_judgement.id]
                 ELSE IF c \in Range(cases)
                    THEN [c EXCEPT !.judgement_id = NullRef]
                 ELSE c : c \in @}]

\* lines 41-43
WithContent(s, judgement, text) ==
    [s EXCEPT !.judgement = (@ \ {judgement}) \cup
       {[judgement EXCEPT !.text_content = text,
                          !.text_content_hash = sha256(text)]}]

\* judgement.cases: the Case rows of the Judgement, in the order the
\* database returns them (no ORDER BY)
CasesOf(s, judgement) ==
    Perms({c \in s.case : c.judgement_id = judgement.id})

\* main(): `populate-contents db_path`; lines 14-18
PopulateStart ==
    /\ pc = "idle"
    /\ hist.n < MaxRuns
    /\ \E t \in Todo(sess) : pass' = [todo |-> t, i |-> 1]
    /\ pc' = "populate"
    /\ hist' = [hist EXCEPT !.n = @ + 1, !.op = "populate", !.ok = FALSE,
                            !.before = db, !.portal = 0, !.prevPortal = 0,
                            !.todo = pass'.todo, !.failedAt = 0,
                            !.deleted = {}, !.cause = "none",
                            !.http = HttpIdle, !.dedups = {},
                            !.restart =
                               IF hist.op = "populate" /\ hist.cause = "killed"
                               THEN [@ EXCEPT !.on = TRUE]
                               ELSE [on |-> FALSE, base |-> db, disk |-> disk]]
    /\ UNCHANGED <<db, sess, run, disk>>
    /\ StoreOnly

CurJudgement == JudgementById(sess, pass.todo[pass.i])

InLoop == pc = "populate" /\ pass.i <= Len(pass.todo)

\* lines 21-22, utils.py 5-14: the file is absent and download_file returns
DownloadOk ==
    /\ InLoop
    /\ ~Exists(disk, CurJudgement.pdf_link)
    /\ disk' = [disk EXCEPT ![CurJudgement.pdf_link] = "full"]
    /\ UNCHANGED <<db, sess, pc, run, pass, hist>>
    /\ StoreOnly

\* The pass ends with an exception raised in the loop body: nothing in
\* populate_contents or main() catches it
PassAborted(cause) ==
    /\ pc' = "idle"
    /\ sess' = db
    /\ pass' = PassIdle
    /\ hist' = [hist EXCEPT !.failedAt = pass.i, !.cause = cause]
    /\ UNCHANGED <<db, run>>
    /\ StoreOnly

\* utils.py 5-14: every attempt of download_file raises until the retry
\* budget is used up: before open() (no file) or while the body is being
\* written to the file opened with 'wb' (a truncated file is left)
DownloadFail ==
    /\ InLoop
    /\ ~Exists(disk, CurJudgement.pdf_link)
    /\ \E left \in {"none", "partial"} :
         disk' = [disk EXCEPT ![CurJudgement.pdf_link] = left]
    /\ PassAborted("download")

\* line 25, utils.py 17-23: pdftotext exits non-zero this once (it cannot be
\* started, or is out of memory) and check_output raises; pdf_to_text has no
\* retry decorator
ExtractFail ==
    /\ InLoop
    /\ Exists(disk, CurJudgement.pdf_link)
    /\ UNCHANGED disk
    /\ PassAborted("extract")

\* The process is killed: between two statements (the files as they are), or
\* inside download_file after open(target_path, 'wb') and before the last
\* chunk is written (utils.py 8-14).  What was not committed is lost.
PassKilled ==
    /\ pc = "populate"
    /\ \/ UNCHANGED disk
       \/ /\ InLoop
          /\ ~Exists(disk, CurJudgement.pdf_link)
          /\ disk' = [disk EXCEPT ![CurJudgement.pdf_link] = "partial"]
    /\ PassAborted("killed")

\* lines 26-44: the stores the loop body can leave in the session, one per
\* order in which judgement.cases is loaded
Processed(s, judgement, text) ==
    LET other_judgement == JudgementByHash(s, sha256(text))
    IN  IF other_judgement # NoRow
        THEN {Deduplicated(s, judgement, other_judgement, cases) :
                cases \in CasesOf(s, judgement)}
        ELSE {WithContent(s, judgement, text)}

\* lines 25-45: text, hash, lookup, then dedup or store, then commit
Process ==
    /\ InLoop
    /\ Exists(disk, CurJudgement.pdf_link)
    /\ LET judgement == CurJudgement
           text == pdf_to_text(disk, judgement.pdf_link)
           other_judgement == JudgementByHash(sess, sha256(text))
       IN  /\ sess' \in Processed(sess, judgement, text)
           /\ IF other_judgement # NoRow
              THEN hist' = [hist EXCEPT
                              !.deleted = @ \cup {judgement.id},
                              !.dedups = @ \cup {[gone |-> judgement,
                                                  kept |-> other_judgement.id]}]
              ELSE UNCHANGED hist
    /\ db' = sess'
    /\ pass' = [pass EXCEPT !.i = @ + 1]
    /\ UNCHANGED <<pc, run, disk>>
    /\ StoreOnly

\* the loop is over
PopulateEnd ==
    /\ pc = "populate"
    /\ pass.i > Len(pass.todo)
    /\ pc' = "idle"
    /\ pass' = PassIdle
    /\ hist' = [hist EXCEPT !.ok = TRUE,
                            !.cycle.urls =
                               @ \cup {d.gone.pdf_link : d \in hist.dedups}]
    /\ UNCHANGED <<db, sess, run, disk>>
    /\ StoreOnly

Next ==
    \/ ScrapeStart
    \/ FetchJudges
    \/ NextJudge
    \/ FetchFirst
    \/ Reconcile
    \/ FetchNext
    \/ EndOfListing
    \/ ScrapeRaise
    \/ RequestRaises
    \/ ScrapeFail
    \/ ScrapeCommit
    \/ PopulateStart
    \/ DownloadOk
    \/ DownloadFail
    \/ ExtractFail
    \/ PassKilled
    \/ Process
    \/ PopulateEnd

Spec == Init /\ [][Next]_vars

\* The store with scrape_cases alone (no content pass between the runs)
NextScrape ==
    \/ ScrapeStart
    \/ FetchJudges
    \/ NextJudge
    \/ FetchFirst
    \/ Reconcile
    \/ FetchNext
    \/ EndOfListing
    \/ ScrapeRaise
    \/ RequestRaises
    \/ ScrapeFail
    \/ ScrapeCommit

SpecScrape == Init /\ [][NextScrape]_vars

-----------------------------------------------------------------------------
(* SpecRows *)

InitRowsSpec == StoreIdle /\ InitRows /\ cur = 0 /\ bo = 0

SpecRows == InitRowsSpec /\ [][ParsePage]_vars

HasLink(tr) == tr.cells >= 2 /\ tr.kid = "href"

WellFormed(tr) == tr.cells = 4 /\ strptime_ok(tr.date)

CaseOfRow(judge_name, tr) ==
    [pdf_link |-> tr.href, case_number |-> tr.text.s, date |-> tr.date,
     party |-> tr.party, judge_name |-> judge_name]

LinkRows(rows) == SelectSeq(rows, HasLink)

\* C7: on a page whose rows with a hyperlink are well formed, a row without
\* a hyperlink in its second cell yields nothing and raises nothing: the
\* generator ends normally and has yielded the record of every row with a
\* hyperlink, in row order.
C7_RowFiltering ==
    (rw.done /\ \A i \in 1..Len(rw.rows) :
                  HasLink(rw.rows[i]) => WellFormed(rw.rows[i]))
      => /\ rw.err = "none"
         /\ rw.out = [i \in 1..Len(LinkRows(rw.rows)) |->
                        CaseOfRow("A", LinkRows(rw.rows)[i])]

-----------------------------------------------------------------------------
(* SpecFetch: fetch_cases for one entity, consumed by a caller that keeps    *)
(* what it is given.  cur.reqs are the requests made on the session,         *)
(* cur.out the cases yielded.                                                *)

\* The rows of a page of the entity, by shape; the data row at place i of
\* page k carries case number <<k, i>>.
PageShapes ==
    {<<>>, <<"data">>, <<"bold">>, <<"text">>, <<"bold", "data">>,
     <<"data", "data">>}

ShapedRow(shape, k, i) ==
    CASE shape = "data" -> R("u1", <<k, i>>, 1, "p")
      [] shape = "bold" -> HeaderBold
      [] shape = "text" -> HeaderText

\* n pages, each but the last with a NEXT link to the one after it
ChainListing(shapes) ==
    [k \in 1..Len(shapes) |->
       Page([i \in 1..Len(shapes[k]) |-> ShapedRow(shapes[k][i], k, i)],
            IF k < Len(shapes) THEN k + 1 ELSE 0)]

Listings ==
    {ChainListing(sh) : sh \in UNION {[1..n -> PageShapes] : n \in 1..MaxPages}}

InitFetch ==
    /\ StoreIdle
    /\ rw = RwIdle
    /\ bo = 0
    /\ cur \in {[listing |-> l, st |-> "new", c |-> NoCursor, reqs |-> <<>>,
                 out |-> <<>>, failed |-> FALSE] : l \in Listings}

FetchFrame == UNCHANGED <<db, sess, pc, run, pass, disk, hist, rw, bo>>

\* lines 66-85: landing GET, query POST, first page parsed
FcPost ==
    /\ cur.st = "new"
    /\ cur' = [cur EXCEPT !.st = "page",
                          !.reqs = <<"GET landing", "POST query">>,
                          !.c = CursorPost(cur.listing, "A")]
    /\ FetchFrame

\* lines 84-85, 96-97: yield case
FcYield ==
    /\ cur.st = "page"
    /\ cur.c.q # <<>>
    /\ cur' = [cur EXCEPT !.out = Append(@, Head(cur.c.q)), !.c.q = Tail(@)]
    /\ FetchFrame

\* lines 89-97: a NEXT link: GET it
FcGet ==
    /\ cur.st = "page"
    /\ cur.c.q = <<>>
    /\ cur.c.err = "none"
    /\ NextUrl(cur.listing, cur.c) # 0
    /\ cur' = [cur EXCEPT !.reqs = Append(@, <<"GET", NextUrl(cur.listing, cur.c)>>),
                          !.c = CursorGet(cur.listing, "A", cur.c)]
    /\ FetchFrame

\* lines 90-91: no NEXT link: break, the generator is exhausted
FcDone ==
    /\ cur.st = "page"
    /\ cur.c.q = <<>>
    /\ cur.c.err = "none"
    /\ NextUrl(cur.listing, cur.c) = 0
    /\ cur' = [cur EXCEPT !.st = "done"]
    /\ FetchFrame

\* cases_from_page raises: the exception leaves the generator
FcRaise ==
    /\ cur.st = "page"
    /\ cur.c.q = <<>>
    /\ cur.c.err # "none"
    /\ cur' = [cur EXCEPT !.st = "raised"]
    /\ FetchFrame

\* a request raises: the exception leaves the generator
FcFail ==
    /\ \/ cur.st = "new"
       \/ /\ cur.st = "page"
          /\ cur.c.q = <<>>
          /\ cur.c.err = "none"
          /\ NextUrl(cur.listing, cur.c) # 0
    /\ cur' = [cur EXCEPT !.st = "raised", !.failed = TRUE]
    /\ FetchFrame

NextFetch == FcPost \/ FcYield \/ FcGet \/ FcDone \/ FcRaise \/ FcFail

SpecFetch == InitFetch /\ [][NextFetch]_vars

NPages == Len(cur.listing)

RECURSIVE RecordsFrom(_, _)
RecordsFrom(listing, k) ==
    IF k > Len(listing) THEN <<>>
    ELSE [i \in 1..Len(LinkRows(listing[k].rows)) |->
            CaseOfRow("A", LinkRows(listing[k].rows)[i])]
         \o RecordsFrom(listing, k + 1)

NoRowRaises ==
    \A k \in 1..NPages : cases_from_page("A", cur.listing[k].rows).err = "none"

IsPrefix(a, b) == Len(a) <= Len(b) /\ a = SubSeq(b, 1, Len(a))

ExpectedReqs ==
    <<"GET landing", "POST query">> \o [k \in 1..(NPages - 1) |-> <<"GET", k + 1>>]

\* C6: over N chained pages whose requests and rows raise nothing,
\* fetch_cases yields the records of the pages once each in page order,
\* makes one POST and N-1 GETs of result pages, and ends: what it has
\* yielded and requested is at every moment a prefix of that, it is never
\* stuck before the end, and at the end it has yielded and requested all.
C6_PaginationTermination ==
    /\ IsPrefix(cur.reqs, ExpectedReqs)
    /\ IsPrefix(cur.out, RecordsFrom(cur.listing, 1))
    /\ cur.st = "done" =>
         /\ cur.reqs = ExpectedReqs
         /\ cur.out = RecordsFrom(cur.listing, 1)
    /\ NoRowRaises /\ ~cur.failed =>
         /\ cur.st # "raised"
         /\ cur.st # "done" => ENABLED (FcPost \/ FcYield \/ FcGet \/ FcDone)

\* three pages, each with a record, fetched to the end
C6_Witness ==
    /\ cur.st = "done"
    /\ NPages = 3
    /\ Len(cur.reqs) = 4
    /\ Len(cur.out) >= 3
    /\ \A k \in 1..3 : \E i \in 1..Len(cur.out) : cur.out[i].case_number[1] = k

-----------------------------------------------------------------------------
(* SpecRetry: @backoff.on_exception(backoff.expo, Exception, max_time=120,   *)
(* jitter=backoff.full_jitter) on utils.download_file (a coroutine function) *)
(* and on scraper.fetch_cases (an async generator function).  Time is in     *)
(* whole seconds since the decorated function was called.                    *)

max_time == 120

Wrapped == {"download_file", "fetch_cases"}

\* async def with a yield: calling it runs none of its body and returns an
\* async generator; the body runs when the caller iterates
IsAsyncGenerator(target) == target = "fetch_cases"

RECURSIVE Pow2(_)
Pow2(n) == IF n = 0 THEN 1 ELSE 2 * Pow2(n - 1)

\* backoff.expo: 1, 2, 4, ... for the 1st, 2nd, 3rd wait
expo(n) == Pow2(n - 1)

\* the waits full_jitter may draw under ceiling `value`, cut to what is left
\* of max_time: min(random.uniform(0, value), max_time - elapsed)
Waits(value, elapsed) ==
    {w \in 0..value : w <= max_time - elapsed}

InitRetry ==
    /\ StoreIdle
    /\ rw = RwIdle
    /\ cur = 0
    /\ bo \in {[target |-> t, st |-> "call", tries |-> 0, now |-> 0,
                elapsed |-> 0, wait |-> 0, ceiling |-> 0] : t \in Wrapped}

RetryFrame == UNCHANGED <<db, sess, pc, run, pass, disk, hist, rw, cur>>

\* the retry loop calls the coroutine: tries += 1, elapsed = now - start
Attempt ==
    /\ bo.st = "call"
    /\ ~IsAsyncGenerator(bo.target)
    /\ bo.tries < MaxTries
    /\ bo' = [bo EXCEPT !.st = "running", !.tries = @ + 1, !.elapsed = bo.now]
    /\ RetryFrame

\* the attempt raises and the budget is not used up: wait and call again
FailAndWait ==
    /\ bo.st = "running"
    /\ ~IsAsyncGenerator(bo.target)
    /\ bo.elapsed < max_time
    /\ \E d \in 0..MaxAttemptSecs :
       \E w \in Waits(expo(bo.tries), bo.elapsed) :
         bo' = [bo EXCEPT !.st = "call", !.now = @ + d + w, !.wait = w,
                          !.ceiling = expo(bo.tries)]
    /\ RetryFrame

\* the attempt raises and elapsed >= max_time: the exception is re-raised
FailAndGiveUp ==
    /\ bo.st = "running"
    /\ ~IsAsyncGenerator(bo.target)
    /\ bo.elapsed >= max_time
    /\ \E d \in 0..MaxAttemptSecs :
         bo' = [bo EXCEPT !.st = "raised", !.now = @ + d]
    /\ RetryFrame

\* the attempt returns
Succeed ==
    /\ bo.st = "running"
    /\ ~IsAsyncGenerator(bo.target)
    /\ \E d \in 0..MaxAttemptSecs :
         bo' = [bo EXCEPT !.st = "returned", !.now = @ + d]
    /\ RetryFrame

\* the retry loop calls the async generator function: the call returns the
\* generator at once and the loop returns it to the caller
CallGenerator ==
    /\ bo.st = "call"
    /\ IsAsyncGenerator(bo.target)
    /\ bo' = [bo EXCEPT !.st = "iterating", !.tries = 1]
    /\ RetryFrame

\* the caller iterates and a request in the body raises: the exception
\* reaches the caller, the retry loop having returned already
IterationRaises ==
    /\ bo.st = "iterating"
    /\ \E d \in 0..MaxAttemptSecs :
         bo' = [bo EXCEPT !.st = "raised", !.now = @ + d]
    /\ RetryFrame

\* the caller iterates to the end
IterationEnds ==
    /\ bo.st = "iterating"
    /\ \E d \in 0..MaxAttemptSecs :
         bo' = [bo EXCEPT !.st = "returned", !.now = @ + d]
    /\ RetryFrame

NextRetry ==
    \/ Attempt
    \/ FailAndWait
    \/ FailAndGiveUp
    \/ Succeed
    \/ CallGenerator
    \/ IterationRaises
    \/ IterationEnds

SpecRetry == InitRetry /\ [][NextRetry]_vars

\* C8: a retry-wrapped operation whose attempts raise is attempted again
\* after waits drawn under growing ceilings (1, 2, 4, ... seconds), the error
\* reaches the caller only when the budget of max_time seconds has elapsed,
\* and after that no further attempt is made.
C8_RetryExhaustion ==
    /\ bo.st = "raised" => bo.now >= max_time
    /\ bo.st = "running" /\ bo.elapsed < max_time => ENABLED FailAndWait
    /\ bo.wait <= bo.ceiling
    /\ bo.st = "call" /\ bo.tries >= 1 => bo.ceiling = expo(bo.tries)
    /\ bo.st = "raised" => ~ENABLED NextRetry

\* the same of the coroutine function alone
RetryExhaustionOfCoroutine ==
    ~IsAsyncGenerator(bo.target) => C8_RetryExhaustion

-----------------------------------------------------------------------------
(* Claims about the store *)

\* What a whole run over portal f makes of store s: every case of every page
\* of every entity of the directory, reconciled in order.
RECURSIVE PageCases(_, _, _)
PageCases(listing, name, k) ==
    IF k = 0 THEN <<>>
    ELSE cases_from_page(name, listing[k].rows).out
           \o PageCases(listing, name, listing[k].next)

RECURSIVE FoldCases(_, _, _)
FoldCases(s, judge, cs) ==
    IF cs = <<>> THEN s
    ELSE FoldCases(Reconciled(s, judge, Head(cs)), judge, Tail(cs))

RECURSIVE FullRunFrom(_, _, _)
FullRunFrom(s, f, j) ==
    IF j > Len(Directory(f)) THEN s
    ELSE LET name == Directory(f)[j][1]
             s1 == WithJudge(s, name)
         IN  FullRunFrom(
               FoldCases(s1, JudgeByName(s1, name).id,
                         PageCases(Listing(f, Directory(f)[j][2]), name, 1)),
               f, j + 1)

ScrapeEnded == pc = "idle" /\ hist.op = "scrape"
PassEnded == pc = "idle" /\ hist.op = "populate"

\* C1: scrape_cases commits once, after the last entity's last page: while a
\* run is under way, and after a run that failed or was killed at any point,
\* the committed store is the store from before the run; after a run that
\* committed it is that store with the cases of every entity and every page
\* reconciled into it.
C1_CommitAtomicity ==
    /\ pc = "scrape" => db = hist.before
    /\ ScrapeEnded /\ ~hist.ok => db = hist.before
    /\ ScrapeEnded /\ hist.ok => db = FullRunFrom(hist.before, hist.portal, 1)

\* a run that failed in its second entity, with rows of the first flushed
C1_Witness ==
    ScrapeEnded /\ ~hist.ok /\ hist.failedAt = 2 /\ hist.uncommitted

\* C2: two Judgements of distinct URLs with the same extracted text, both
\* processed by a pass that ran to its end: one of them is left and holds the
\* text, the other is gone, and every Case either of them owned is owned by
\* the one that is left.
C2_ContentDedup ==
    PassEnded /\ hist.ok =>
      \A j1, j2 \in hist.before.judgement :
        ( /\ j1.pdf_link # j2.pdf_link
          /\ {j1.id, j2.id} \subseteq Range(hist.todo)
          /\ disk[j1.pdf_link] = "full" /\ disk[j2.pdf_link] = "full"
          /\ DocText(j1.pdf_link) = DocText(j2.pdf_link) )
        => \E kept \in {j1, j2} :
             /\ \E j \in db.judgement :
                  j.id = kept.id /\ j.text_content = DocText(kept.pdf_link)
             /\ \A gone \in {j1, j2} \ {kept} :
                  ~\E j \in db.judgement : j.id = gone.id
             /\ \A c \in hist.before.case :
                  c.judgement_id \in {j1.id, j2.id} =>
                    \E d \in db.case : d.id = c.id /\ d.judgement_id = kept.id

\* C3: in every committed store every Case references a Judgement that exists.
C3_CaseOwnership ==
    \A c \in db.case : \E j \in db.judgement : j.id = c.judgement_id

\* C4: a committed run of scrape_cases over the portal data of the committed
\* run before it leaves the store as that run left it.
C4_IdempotentRecrawl ==
    ScrapeEnded /\ hist.ok /\ hist.repeat => db = hist.prevDb

C4_Witness ==
    ScrapeEnded /\ hist.ok /\ hist.repeat /\ Cardinality(db.case) = 3

C9_ErrorIsolation ==
    PassEnded /\ hist.cause \in {"download", "extract"} =>
      /\ \A k \in 1..Len(hist.todo) : k # hist.failedAt =>
           ~\E j \in db.judgement :
              j.id = hist.todo[k] /\ j.text_content = NULL
      /\ \E j \in db.judgement :
           j.id = hist.todo[hist.failedAt] /\ j.text_content = NULL

\* C10: in every committed store no two Judgements with content carry the
\* same text content hash.
C10_HashUnique ==
    \A j1, j2 \in db.judgement :
      (j1 # j2 /\ j1.text_content # NULL /\ j2.text_content # NULL)
        => j1.text_content_hash # j2.text_content_hash

\* a pass has deleted a duplicate and the Judgement it duplicated has content
C10_Witness ==
    /\ PassEnded /\ hist.ok /\ hist.deleted # {}
    /\ \E j \in db.judgement : j.text_content_hash = sha256("t1")

\* C11: in the committed store and in the session of a run under way (rows
\* flushed and not yet committed included) no two Judgement rows carry the
\* same pdf_link.
C11_UrlUnique ==
    \A s \in {db, sess} :
      \A j1, j2 \in s.judgement : j1.pdf_link = j2.pdf_link => j1 = j2

\* u1 met under A and under B in a run that has committed nothing: the
\* session holds one Judgement of u1, with both judges, the store none
C11_Witness ==
    /\ pc = "scrape"
    /\ {<<"u1", "A">>, <<"u1", "B">>} \subseteq run.listed
    /\ ~\E j \in db.judgement : j.pdf_link = "u1"
    /\ \E j \in sess.judgement : j.pdf_link = "u1" /\ Len(j.judges) = 2
    /\ Cardinality({j \in sess.judgement : j.pdf_link = "u1"}) = 1

\* The sessions and requests of the run under way or, between runs, of the
\* run that ended last, and the portal it ran against.
SeenHttp == IF pc = "scrape" THEN run.http ELSE hist.http
SeenPortal == IF pc = "scrape" THEN run.portal ELSE hist.portal

EarlierOf(reqs, i) == {k \in 1..Len(reqs) : k < i /\ reqs[k].ent = reqs[i].ent}
LaterOf(reqs, i) == {k \in 1..Len(reqs) : k > i /\ reqs[k].ent = reqs[i].ent}

\* C12: the requests of one entity's listing are all made on one session,
\* which no request of another entity and no request for the list of judges
\* is made on and whose first request is that entity's landing GET; when
\* fetch_cases is exhausted, and when a request or a page of it raises, its
\* session is closed.
C12_SessionIsolation ==
    LET h == SeenHttp
        n == Len(h.reqs)
    IN  /\ \A i, k \in 1..n :
             (h.reqs[i].s = h.reqs[k].s) <=> (h.reqs[i].ent = h.reqs[k].ent)
        /\ \A i \in 1..n :
             /\ h.reqs[i].ent # "dir" => h.reqs[i].s # h.dir
             /\ EarlierOf(h.reqs, i) = {} =>
                  h.reqs[i].verb = "GET" /\ h.reqs[i].url = "dhcindex"
        /\ pc = "scrape" /\ run.st = "judges" => h.open \subseteq {h.dir}
        /\ ScrapeEnded /\ hist.cause \in {"request", "parse"} =>
             h.open \subseteq {h.dir}

\* the second entity is being listed on the third session made, the first
\* entity's two pages were fetched on the second, which is closed
C12_Witness ==
    /\ pc = "scrape" /\ run.st = "page" /\ run.j = 2
    /\ run.http.made = 3 /\ run.http.open = {1, 3}
    /\ \E i, k \in 1..Len(run.http.reqs) :
         /\ run.http.reqs[i].ent = "j1" /\ run.http.reqs[i].url = "next"
         /\ run.http.reqs[i].s = 2
         /\ run.http.reqs[k].ent = "j2" /\ run.http.reqs[k].s = 3

\* C13: a run of scrape_cases in which a request of the listing phase raised
\* once ends committed, with the store a run without the failure commits.
C13_ListingRetry ==
    ScrapeEnded /\ hist.cause = "request" =>
      hist.ok /\ db = FullRunFrom(hist.before, hist.portal, 1)

EntName(f, e) ==
    LET k == CHOOSE k \in 1..Len(Directory(f)) : Directory(f)[k][2] = e
    IN  Directory(f)[k][1]

\* C15: the requests made for an entity are its landing GET, then one POST
\* carrying its id and the date range, then GETs each of the NEXT link of the
\* page fetched just before (so none follows a page without one); they are
\* consecutive in the run's requests; and when a request follows the fetch
\* of a page, every case of that page has been handed to scrape_cases.
C15_PaginationOrder ==
    LET h == SeenHttp
        f == SeenPortal
    IN  \A i \in 1..Len(h.reqs) :
          LET r == h.reqs[i]
          IN  r.ent # "dir" =>
                /\ EarlierOf(h.reqs, i) = {} =>
                     r.verb = "GET" /\ r.url = "dhcindex"
                /\ EarlierOf(h.reqs, i) # {} =>
                     /\ h.reqs[i - 1].ent = r.ent
                     /\ IF h.reqs[i - 1].url = "dhcindex"
                        THEN /\ r.verb = "POST" /\ r.url = "judname1"
                             /\ r.ctype = r.ent /\ r.range = f
                        ELSE /\ r.verb = "GET" /\ r.url = "next"
                             /\ r.page # 0
                             /\ r.page =
                                  Listing(f, r.ent)[h.reqs[i - 1].page].next
                /\ (pc = "scrape" /\ r.page # 0 /\ LaterOf(h.reqs, i) # {}) =>
                     \A c \in Range(cases_from_page(EntName(f, r.ent),
                                      Listing(f, r.ent)[r.page].rows).out) :
                       <<c.pdf_link, c.judge_name>> \in run.listed

\* both entities of the directory listed, the first over two pages
C15_Witness ==
    /\ pc = "scrape" /\ run.st = "judges" /\ run.j = 2
    /\ Len(run.http.reqs) = 7
    /\ run.http.reqs[5].page = 2
    /\ run.http.reqs[7].ctype = "j2"

\* C14: a pass in which pdftotext failed once on a document has processed
\* that document: its Judgement is not left without content.
C14_ExtractionRetry ==
    PassEnded /\ hist.cause = "extract" =>
      ~\E j \in db.judgement :
         j.id = hist.todo[hist.failedAt] /\ j.text_content = NULL

\* C16: a step of scrape_cases leaves every Case row of the session as it is
\* (an aborted run drops the rows it had not committed) and every committed
\* Case row in place, and never leaves two Case rows with one case number; a
\* step of any program that changes the Judgement a committed Case belongs to
\* is a step of populate_contents that deletes the Judgement it belonged to.
C16_CasesImmutable ==
    [][ /\ pc = "scrape" =>
             /\ \A c \in sess.case :
                  c \in sess'.case \/ (pc' = "idle" /\ c \notin db.case)
             /\ \A c \in db.case : c \in db'.case
        /\ \A c1, c2 \in sess'.case :
             c1.case_number = c2.case_number => c1 = c2
        /\ \A c \in db.case : \A d \in db'.case :
             (c.id = d.id /\ c.judgement_id # d.judgement_id) =>
               /\ pc = "populate"
               /\ ~\E j \in db'.judgement : j.id = c.judgement_id ]_vars

\* case number c1 exists with party p under the Judgement of u1; the record
\* (u3, c1, party q) was processed: u3 has a Judgement, the Case is as it was
C16_Witness ==
    /\ pc = "scrape"
    /\ <<"u3", "B">> \in run.listed
    /\ \E j \in sess.judgement : j.pdf_link = "u3"
    /\ \E c \in sess.case :
         /\ c.case_number = "c1" /\ c.party = "p"
         /\ JudgementByLink(sess, "u1").id = c.judgement_id
    /\ Cardinality({c \in sess.case : c.case_number = "c1"}) = 1

\* C17: a step of populate_contents leaves every Judgement that has content
\* in place and unchanged; a Judgement that a step deletes had no content and
\* is the one being processed, and a different Judgement, which had content
\* before the step and carries the hash of the processed text, is left.
C17_OnlyContentless ==
    [][ pc = "populate" =>
          /\ \A j \in db.judgement :
               j.text_content # NULL => j \in db'.judgement
          /\ \A j \in db.judgement :
               (~\E k \in db'.judgement : k.id = j.id) =>
                 /\ j.text_content = NULL
                 /\ j.id = pass.todo[pass.i]
                 /\ \E k \in db.judgement \cap db'.judgement :
                      /\ k.id # j.id
                      /\ k.text_content # NULL
                      /\ k.text_content_hash =
                           sha256(pdf_to_text(disk, j.pdf_link)) ]_vars

\* a pass under way has deleted a duplicate of a Judgement that holds t1
C17_Witness ==
    /\ pc = "populate"
    /\ hist.dedups # {}
    /\ \A d \in hist.dedups :
         \E k \in db.judgement : k.id = d.kept /\ k.text_content = "t1"

\* What a pass that nothing interrupts leaves of store s with the files d:
\* every absent file downloaded whole, every Judgement of the list processed
\* in order; one store per order of the list and of the cases lists.
Downloaded(d) == [u \in URLs |-> IF d[u] = "none" THEN "full" ELSE d[u]]

RECURSIVE PassFrom(_, _, _, _)
PassFrom(s, d, t, i) ==
    IF i > Len(t) THEN {s}
    ELSE LET judgement == JudgementById(s, t[i])
         IN  UNION {PassFrom(s2, d, t, i + 1) :
                      s2 \in Processed(s, judgement,
                                       pdf_to_text(d, judgement.pdf_link))}

WholePass(s, d) == UNION {PassFrom(s, Downloaded(d), t, 1) : t \in Todo(s)}

\* C18: a pass that ran to its end after a pass (or several) that was killed
\* had no Judgement with committed content in its list, and leaves a store
\* that an uninterrupted pass over the store and the files from before the
\* first of the killed passes can leave.
C18_RestartEquivalence ==
    PassEnded /\ hist.ok /\ hist.restart.on =>
      /\ \A k \in 1..Len(hist.todo) :
           \A j \in hist.before.judgement :
             j.id = hist.todo[k] => j.text_content = NULL
      /\ db \in WholePass(hist.restart.base, hist.restart.disk)

\* C19: after a dedup step of a pass the Judgement that was kept has every
\* author of the Judgement that was deleted, and the deleted Judgement, with
\* its authorship rows, is gone.
C19_DedupMergesAuthors ==
    (pc = "populate" \/ PassEnded) =>
      \A d \in hist.dedups :
        /\ ~\E j \in db.judgement : j.id = d.gone.id
        /\ \E k \in db.judgement :
             k.id = d.kept /\ Range(d.gone.judges) \subseteq Range(k.judges)

\* C20: when populate_contents finds the file of the Judgement at hand on
\* disk (and so does not download it) the file holds the whole document.
C20_CacheSound ==
    (InLoop /\ Exists(disk, CurJudgement.pdf_link)) =>
      disk[CurJudgement.pdf_link] = "full"

\* C21: a committed crawl over the portal data of the committed crawl before
\* it, with one or more content passes between the two that ran to their
\* end and deleted duplicates, creates no Judgement for the URL of a deleted
\* duplicate: it leaves the Judgement rows the store had when it started.
C21_NoRecreation ==
    ScrapeEnded /\ hist.ok /\ hist.cycle.again =>
      /\ \A u \in hist.cycle.gone :
           ~\E j \in db.judgement : j.pdf_link = u
      /\ db.judgement = hist.before.judgement

====
